---- MODULE Spec2Model ----
(***************************************************************************)
(* N-Queen visualizer: the backtracking search engines of src/src/App.jsx  *)
(* (array and bitmask generators, array and bitmask counters) and of       *)
(* src/unnamed/part_000 (computeTraceSteps), with the timer-driven         *)
(* consumer of App.jsx (startVisualization / stepGenerator).               *)
(*                                                                         *)
(* A generator object is a record: its suspension point (at), the stack of *)
(* the active backtrack() frames and the live board.  One next() is one    *)
(* operator application that runs the code from the suspension point to    *)
(* the next yield.  Boards are functions 0..n-1 -> Int.                     *)
(***************************************************************************)
EXTENDS Integers, Sequences, FiniteSets, TLC

\* Largest board size given to the search functions.
MaxN == 8

\* Largest board size of the searches checked for termination.
MaxFairN == 7

\* Largest board size typed into the "Number of Queens" field.
MaxQueens == 5

Sizes == 0..MaxN

Cols(n) == 0..(n - 1)

Abs(x) == IF x < 0 THEN -x ELSE x

Min(S) == CHOOSE x \in S : \A y \in S : x <= y

Last(s) == s[Len(s)]

\* The one element of a singleton set.  {F(x) : x \in {e}} evaluates e once
\* and applies F to its value.
Only(S) == CHOOSE v \in S : TRUE

Front(s) == SubSeq(s, 1, Len(s) - 1)

\* The value of a board entry never assigned (a hole of `new Array(n)`, or
\* the entry after `board[row] = undefined`).
undefined == -1

\* board[r] === col : strict equality, false when board[r] is undefined.
StrictEq(x, c) == x # undefined /\ x = c

\* Math.abs(board[r] - col) === d : NaN (undefined operand) equals nothing.
AbsDiffEq(x, c, d) == x # undefined /\ Abs(x - c) = d

\* new Array(n)
NewArray(n) == [i \in Cols(n) |-> undefined]

NoEvent == [action |-> "none"]

----------------------------------------------------------------------------
(* solveNQueensArray *)

\* The inner loop over r < row: valid stays true iff no earlier row clashes.
ArrayValid(board, row, col) ==
  \A r \in 0..(row - 1) :
     ~(StrictEq(board[r], col) \/ AbsDiffEq(board[r], col, row - r))

\* The for loop over col, resumed at column `from`: the first valid column.
ArrayCandidates(n, board, row, from) ==
  {c \in from..(n - 1) : ArrayValid(board, row, c)}

ArrayPick(n, board, row, from) == Min(ArrayCandidates(n, board, row, from))

ArrayInit == [at |-> "start", stack |-> <<>>, board |-> <<>>]

\* backtrack(row) returns to its caller: the caller resumes after yield* and
\* yields "remove" with the board as it is (the entry is cleared only when
\* the generator is resumed again); with no caller the generator completes.
ArrayReturn(g) ==
  IF g.stack = <<>>
  THEN [gen |-> [g EXCEPT !.at = "done"], done |-> TRUE, value |-> NoEvent]
  ELSE [gen |-> [g EXCEPT !.at = "remove"], done |-> FALSE,
        value |-> [row |-> Last(g.stack).row, col |-> Last(g.stack).col,
                   action |-> "remove", board |-> g.board]]

\* The for loop of backtrack(row) continued at column `from`.
ArrayLoop(n, g, row, from) ==
  IF ArrayCandidates(n, g.board, row, from) = {}
  THEN ArrayReturn(g)
  ELSE LET col == ArrayPick(n, g.board, row, from)
           b == [g.board EXCEPT ![row] = col]
       IN [gen |-> [at |-> "place", board |-> b,
                    stack |-> Append(g.stack, [row |-> row, col |-> col])],
           done |-> FALSE,
           value |-> [row |-> row, col |-> col, action |-> "place", board |-> b]]

\* A base case that returns without yielding the solution.
ArrayEnterSilent(n, g, row) ==
  IF row = n THEN ArrayReturn(g) ELSE ArrayLoop(n, g, row, 0)

\* backtrack(row) is entered.
ArrayEnter(n, g, row) ==
  IF row = n
  THEN [gen |-> [g EXCEPT !.at = "solution"], done |-> FALSE,
        value |-> [action |-> "solution", board |-> g.board]]
  ELSE ArrayLoop(n, g, row, 0)

\* gen.next() on a solveNQueensArray(n) generator.
ArrayNext(n, g) ==
  CASE g.at = "start" ->
         ArrayEnter(n, [g EXCEPT !.board = NewArray(n)], 0)
    [] g.at = "place" -> ArrayEnter(n, g, Last(g.stack).row + 1)
    [] g.at = "solution" -> ArrayReturn(g)
    [] g.at = "remove" ->
         LET f == Last(g.stack)
         IN ArrayLoop(n, [g EXCEPT !.board[f.row] = undefined,
                                   !.stack = Front(g.stack)],
                      f.row, f.col + 1)
    [] OTHER -> [gen |-> g, done |-> TRUE, value |-> NoEvent]

----------------------------------------------------------------------------
(* 32-bit integer operators of JavaScript, on two's-complement values *)

\* The largest and the smallest int32.
MaxInt32 == 2147483647

MinInt32 == -MaxInt32 - 1

\* 2^30, the weight of the bit that `<< 1` moves into the sign position.
Bit30 == 1073741824

\* a & b
RECURSIVE BitAnd(_, _)
BitAnd(a, b) ==
  Only({IF x = 0 \/ y = 0 THEN 0
        ELSE IF x = -1 THEN y
        ELSE IF y = -1 THEN x
        ELSE (x % 2) * (y % 2) + 2 * BitAnd(x \div 2, y \div 2)
        : x \in {a}, y \in {b}})

\* a | b
RECURSIVE BitOr(_, _)
BitOr(a, b) ==
  Only({IF x = 0 THEN y
        ELSE IF y = 0 THEN x
        ELSE IF x = -1 \/ y = -1 THEN -1
        ELSE (IF x % 2 = 1 \/ y % 2 = 1 THEN 1 ELSE 0)
             + 2 * BitOr(x \div 2, y \div 2)
        : x \in {a}, y \in {b}})

\* ~a
BitNot(a) == -a - 1

\* -a, wrapping
Neg32(a) == IF a = MinInt32 THEN MinInt32 ELSE -a

\* a - 1, wrapping
Dec32(a) == IF a = MinInt32 THEN MaxInt32 ELSE a - 1

\* a << 1 : bit 31 is dropped, bit 30 becomes the sign.
Shl1(a) ==
  Only({IF (x \div Bit30) % 2 = 1 THEN ((x % Bit30) - Bit30) * 2
        ELSE (x % Bit30) * 2 : x \in {a}})

\* a << k, the shift count taken modulo 32
RECURSIVE ShlTimes(_, _)
ShlTimes(a, k) ==
  Only({IF j = 0 THEN x ELSE ShlTimes(Shl1(x), j - 1) : x \in {a}, j \in {k}})

Shl(a, k) == ShlTimes(a, k % 32)

\* A right shift that leaves the value where it is.
Shr1Unshifted(a) == a

\* a >> 1 (sign-propagating)
Shr1(a) == a \div 2

\* Math.log2(pick) for pick a power of two
RECURSIVE Log2(_)
Log2(p) == Only({IF x <= 1 THEN 0 ELSE 1 + Log2(x \div 2) : x \in {p}})

----------------------------------------------------------------------------
(* solveNQueensBitmask *)

BitmaskInit == [at |-> "start", stack |-> <<>>, board |-> <<>>]

\* A mask that forgets the two diagonal masks.
AvailableColumnsOnly(n, columns, diag1, diag2) ==
  BitAnd(Dec32(Shl(1, n)), BitNot(columns))

\* ((1 << n) - 1) & ~(columns | diag1 | diag2)
Available(n, columns, diag1, diag2) ==
  BitAnd(Dec32(Shl(1, n)), BitNot(BitOr(BitOr(columns, diag1), diag2)))

\* The highest set bit instead of the lowest.
RECURSIVE HighestBit(_)
HighestBit(available) ==
  Only({IF x <= 1 THEN x ELSE 2 * HighestBit(x \div 2) : x \in {available}})

\* available & -available
LowestBit(available) == BitAnd(available, Neg32(available))

\* available &= available - 1
ClearLowestBit(available) == BitAnd(available, Dec32(available))

BitmaskReturn(g) ==
  IF g.stack = <<>>
  THEN [gen |-> [g EXCEPT !.at = "done"], done |-> TRUE, value |-> NoEvent]
  ELSE [gen |-> [g EXCEPT !.at = "remove"], done |-> FALSE,
        value |-> [row |-> Last(g.stack).row, col |-> Last(g.stack).col,
                   action |-> "remove", board |-> g.board]]

\* A loop that counts the picked bit from the other end of the row.
BitmaskLoopMirrored(g, row, columns, diag1, diag2, available) ==
  IF available = 0
  THEN BitmaskReturn(g)
  ELSE LET pick == LowestBit(available)
           col == Cardinality(DOMAIN g.board) - 1 - Log2(pick)
           b == [g.board EXCEPT ![row] = col]
       IN [gen |-> [at |-> "place", board |-> b,
                    stack |-> Append(g.stack,
                                [row |-> row, columns |-> columns,
                                 diag1 |-> diag1, diag2 |-> diag2,
                                 available |-> available, pick |-> pick,
                                 col |-> col])],
           done |-> FALSE,
           value |-> [row |-> row, col |-> col, action |-> "place", board |-> b]]

\* The while loop of backtrack(row, columns, diag1, diag2) at its test.
BitmaskLoop(g, row, columns, diag1, diag2, available) ==
  IF available = 0
  THEN BitmaskReturn(g)
  ELSE LET pick == LowestBit(available)
           col == Log2(pick)
           b == [g.board EXCEPT ![row] = col]
       IN [gen |-> [at |-> "place", board |-> b,
                    stack |-> Append(g.stack,
                                [row |-> row, columns |-> columns,
                                 diag1 |-> diag1, diag2 |-> diag2,
                                 available |-> available, pick |-> pick,
                                 col |-> col])],
           done |-> FALSE,
           value |-> [row |-> row, col |-> col, action |-> "place", board |-> b]]

BitmaskEnter(n, g, row, columns, diag1, diag2) ==
  IF row = n
  THEN [gen |-> [g EXCEPT !.at = "solution"], done |-> FALSE,
        value |-> [action |-> "solution", board |-> g.board]]
  ELSE BitmaskLoop(g, row, columns, diag1, diag2,
                   Available(n, columns, diag1, diag2))

\* A recursive call that passes diag1 on without the shift.
BitmaskChildNoShift(f) ==
  [row |-> f.row + 1,
   columns |-> BitOr(f.columns, f.pick),
   diag1 |-> BitOr(f.diag1, f.pick),
   diag2 |-> Shr1(BitOr(f.diag2, f.pick))]

\* The arguments of the recursive call made from frame f:
\* backtrack(row + 1, columns | pick, (diag1 | pick) << 1, (diag2 | pick) >> 1)
BitmaskChild(f) ==
  [row |-> f.row + 1,
   columns |-> BitOr(f.columns, f.pick),
   diag1 |-> Shl1(BitOr(f.diag1, f.pick)),
   diag2 |-> Shr1(BitOr(f.diag2, f.pick))]

\* The next() calls that enter backtrack: the first one, with
\* backtrack(0, 0, 0, 0) on a fresh board, and the one resumed after a
\* "place" event.
BitmaskEntering(g) == g.at \in {"start", "place"}

\* The arguments and the board backtrack is entered with.
BitmaskEntry(n, g) ==
  IF g.at = "start"
  THEN [row |-> 0, columns |-> 0, diag1 |-> 0, diag2 |-> 0,
        board |-> NewArray(n)]
  ELSE LET a == BitmaskChild(Last(g.stack))
       IN [row |-> a.row, columns |-> a.columns, diag1 |-> a.diag1,
           diag2 |-> a.diag2, board |-> g.board]

\* gen.next() on a solveNQueensBitmask(n) generator.
BitmaskNext(n, g) ==
  CASE g.at \in {"start", "place"} ->
         Only({BitmaskEnter(n, [g EXCEPT !.board = a.board],
                            a.row, a.columns, a.diag1, a.diag2) :
               a \in {BitmaskEntry(n, g)}})
    [] g.at = "solution" -> BitmaskReturn(g)
    [] g.at = "remove" ->
         LET f == Last(g.stack)
         IN BitmaskLoop([g EXCEPT !.board[f.row] = undefined,
                                  !.stack = Front(g.stack)],
                        f.row, f.columns, f.diag1, f.diag2,
                        ClearLowestBit(f.available))
    [] OTHER -> [gen |-> g, done |-> TRUE, value |-> NoEvent]

----------------------------------------------------------------------------
(* computeTraceSteps: each step runs the code up to the next traceSteps.push *)

\* The value Array(n).fill(-1) gives an empty entry.
Empty == -1

\* candidate: null of a "solution" step
null == <<>>

TraceInit == [at |-> "start", stack |-> <<>>, board |-> <<>>]

\* A safety test that forgets the diagonals.
isSafeRowsOnly(board, col, row) ==
  \A prev \in 0..(col - 1) : board[prev] # row

isSafe(board, col, row) ==
  \A prev \in 0..(col - 1) :
     ~(board[prev] = row \/ Abs(board[prev] - row) = col - prev)

\* A backtrack step that leaves the queen on the board.
TraceReturnNoClear(t) ==
  IF t.stack = <<>>
  THEN [gen |-> [t EXCEPT !.at = "done"], done |-> TRUE, value |-> NoEvent]
  ELSE LET f == Last(t.stack)
       IN [gen |-> [t EXCEPT !.at = "backtrack"], done |-> FALSE,
           value |-> [board |-> t.board,
                      candidate |-> [col |-> f.col, row |-> f.row],
                      status |-> "backtrack"]]

\* solve() returns: its caller clears board[col] and then pushes "backtrack";
\* with no caller computeTraceSteps returns traceSteps.
TraceReturn(t) ==
  IF t.stack = <<>>
  THEN [gen |-> [t EXCEPT !.at = "done"], done |-> TRUE, value |-> NoEvent]
  ELSE LET f == Last(t.stack)
           b == [t.board EXCEPT ![f.col] = Empty]
       IN [gen |-> [t EXCEPT !.at = "backtrack", !.board = b], done |-> FALSE,
           value |-> [board |-> b, candidate |-> [col |-> f.col, row |-> f.row],
                      status |-> "backtrack"]]

\* The for loop of solve(col) at its test, `stack` being the callers' frames.
TraceFor(n, t, stack, col, row) ==
  IF row < n
  THEN [gen |-> [t EXCEPT !.at = "attempt",
                          !.stack = Append(stack, [col |-> col, row |-> row])],
        done |-> FALSE,
        value |-> [board |-> t.board, candidate |-> [col |-> col, row |-> row],
                   status |-> "attempt"]]
  ELSE TraceReturn([t EXCEPT !.stack = stack])

\* A loop over the rows that starts at row 1.
TraceEnterFromOne(n, t, col) ==
  IF col = n
  THEN [gen |-> [t EXCEPT !.at = "solution"], done |-> FALSE,
        value |-> [board |-> t.board, candidate |-> null, status |-> "solution"]]
  ELSE TraceFor(n, t, t.stack, col, 1)

\* solve(col) is entered.
TraceEnter(n, t, col) ==
  IF col = n
  THEN [gen |-> [t EXCEPT !.at = "solution"], done |-> FALSE,
        value |-> [board |-> t.board, candidate |-> null, status |-> "solution"]]
  ELSE TraceFor(n, t, t.stack, col, 0)

\* One step of computeTraceSteps(n): from one push to the next.
TraceNext(n, t) ==
  CASE t.at = "start" ->
         TraceEnter(n, [t EXCEPT !.board = [i \in Cols(n) |-> Empty]], 0)
    [] t.at = "attempt" ->
         LET f == Last(t.stack)
         IN IF isSafe(t.board, f.col, f.row)
            THEN LET b == [t.board EXCEPT ![f.col] = f.row]
                 IN [gen |-> [t EXCEPT !.at = "placed", !.board = b],
                     done |-> FALSE,
                     value |-> [board |-> b,
                                candidate |-> [col |-> f.col, row |-> f.row],
                                status |-> "placed"]]
            ELSE TraceFor(n, t, Front(t.stack), f.col, f.row + 1)
    [] t.at = "placed" -> TraceEnter(n, t, Last(t.stack).col + 1)
    [] t.at = "solution" -> TraceReturn(t)
    [] t.at = "backtrack" ->
         LET f == Last(t.stack)
         IN TraceFor(n, t, Front(t.stack), f.col, f.row + 1)
    [] OTHER -> [gen |-> t, done |-> TRUE, value |-> NoEvent]

----------------------------------------------------------------------------
(* countSolutionsArray: each step runs the code up to the next board write *)

CountArrayInit == [at |-> "start", stack |-> <<>>, board |-> <<>>, count |-> 0]

\* A scan that forgets the diagonals.
CountValidColumnsOnly(board, row, col) ==
  \A r \in 0..(row - 1) : ~StrictEq(board[r], col)

CountValid(board, row, col) ==
  \A r \in 0..(row - 1) :
     ~(StrictEq(board[r], col) \/ AbsDiffEq(board[r], col, row - r))

CountCandidates(n, board, row, from) ==
  {c \in from..(n - 1) : CountValid(board, row, c)}

\* backtrack(row) returns: the caller clears board[row]; with no caller the
\* function returns count.
CountArrayReturn(c) ==
  IF c.stack = <<>>
  THEN [c EXCEPT !.at = "done"]
  ELSE [c EXCEPT !.at = "removed", !.board[Last(c.stack).row] = undefined]

CountArrayLoop(n, c, row, from) ==
  IF CountCandidates(n, c.board, row, from) = {}
  THEN CountArrayReturn(c)
  ELSE LET col == Min(CountCandidates(n, c.board, row, from))
       IN [c EXCEPT !.at = "placed", !.board[row] = col,
                    !.stack = Append(c.stack, [row |-> row, col |-> col])]

CountArrayEnter(n, c, row) ==
  IF row = n
  THEN CountArrayReturn([c EXCEPT !.count = c.count + 1])
  ELSE CountArrayLoop(n, c, row, 0)

CountArrayNext(n, c) ==
  CASE c.at = "start" ->
         CountArrayEnter(n, [c EXCEPT !.board = NewArray(n)], 0)
    [] c.at = "placed" -> CountArrayEnter(n, c, Last(c.stack).row + 1)
    [] c.at = "removed" ->
         LET f == Last(c.stack)
         IN CountArrayLoop(n, [c EXCEPT !.stack = Front(c.stack)],
                           f.row, f.col + 1)
    [] OTHER -> c

----------------------------------------------------------------------------
(* countSolutionsBitmask: each step runs the code up to the next call of  *)
(* backtrack or the next return from it                                   *)

CountBitmaskInit == [at |-> "start", stack |-> <<>>, count |-> 0]

CountAvailable(n, columns, diag1, diag2) ==
  BitAnd(Dec32(Shl(1, n)), BitNot(BitOr(BitOr(columns, diag1), diag2)))

\* A loop that gives up once a deeper call has counted a solution.
CountBitmaskReturnEarly(c) ==
  IF c.stack = <<>> \/ c.count > 0
  THEN [c EXCEPT !.at = "done"]
  ELSE [c EXCEPT !.at = "returned"]

CountBitmaskReturn(c) ==
  IF c.stack = <<>>
  THEN [c EXCEPT !.at = "done"]
  ELSE [c EXCEPT !.at = "returned"]

\* The while loop at its test; available is cleared of pick before the call.
CountBitmaskLoop(c, row, columns, diag1, diag2, available) ==
  IF available = 0
  THEN CountBitmaskReturn(c)
  ELSE LET pick == BitAnd(available, Neg32(available))
       IN [c EXCEPT !.at = "picked",
                    !.stack = Append(c.stack,
                                [row |-> row, columns |-> columns,
                                 diag1 |-> diag1, diag2 |-> diag2,
                                 available |-> BitAnd(available, Dec32(available)),
                                 pick |-> pick])]

CountBitmaskEnter(n, c, row, columns, diag1, diag2) ==
  IF row = n
  THEN CountBitmaskReturn([c EXCEPT !.count = c.count + 1])
  ELSE CountBitmaskLoop(c, row, columns, diag1, diag2,
                        CountAvailable(n, columns, diag1, diag2))

CountBitmaskNext(n, c) ==
  CASE c.at = "start" -> CountBitmaskEnter(n, c, 0, 0, 0, 0)
    [] c.at = "picked" ->
         LET f == Last(c.stack)
         IN CountBitmaskEnter(n, c, f.row + 1,
                              BitOr(f.columns, f.pick),
                              Shl1(BitOr(f.diag1, f.pick)),
                              Shr1(BitOr(f.diag2, f.pick)))
    [] c.at = "returned" ->
         LET f == Last(c.stack)
         IN CountBitmaskLoop([c EXCEPT !.stack = Front(c.stack)],
                             f.row, f.columns, f.diag1, f.diag2, f.available)
    [] OTHER -> c

----------------------------------------------------------------------------
(* What a consumer that drains a producer has seen so far.  An entry of    *)
(* `open` is a placement not yet removed: its depth (the row of a          *)
(* generator event, the col of a computeTraceSteps step), the candidate    *)
(* placed there and the board of the placing event.                        *)

ObsInit(size) ==
  [idx |-> 0, last |-> NoEvent, prev |-> NoEvent, solCount |-> 0,
   prevSol |-> <<>>, lastSol |-> <<>>, open |-> <<>>, popped |-> <<>>,
   places |-> [d \in Cols(size) |-> 0], removes |-> [d \in Cols(size) |-> 0],
   rootCands |-> <<>>,
   att |-> [d \in Cols(size) |-> <<>>], closed |-> <<>>]

ObsSolution(o, ev) ==
  [o EXCEPT !.idx = o.idx + 1, !.last = ev, !.prev = o.last,
            !.solCount = o.solCount + 1,
            !.prevSol = o.lastSol, !.lastSol = ev.board]

\* A placement at `depth`: the search is about to enter depth + 1, whose
\* attempts are counted anew.
ObsPlace(o, ev, depth, cand) ==
  [o EXCEPT !.idx = o.idx + 1, !.last = ev, !.prev = o.last,
            !.open = Append(o.open, [depth |-> depth, cand |-> cand,
                                     board |-> ev.board]),
            !.places[depth] = o.places[depth] + 1,
            !.rootCands = IF depth = 0 THEN Append(o.rootCands, cand)
                          ELSE o.rootCands,
            !.att = [d \in DOMAIN o.att |->
                       IF d = depth + 1 THEN <<>> ELSE o.att[d]]]

\* A removal at `depth`: the search has left depth + 1; `closed` keeps the
\* attempts it made there.
ObsRemove(o, ev, depth) ==
  [o EXCEPT !.idx = o.idx + 1, !.last = ev, !.prev = o.last,
            !.open = IF o.open = <<>> THEN <<>> ELSE Front(o.open),
            !.popped = IF o.open = <<>> THEN <<>> ELSE <<Last(o.open)>>,
            !.removes[depth] = o.removes[depth] + 1,
            !.closed = IF depth + 1 \in DOMAIN o.att
                       THEN <<o.att[depth + 1]>> ELSE <<>>]

\* An attempt of candidate `cand` at `depth`.
ObsAttempt(o, ev, depth, cand) ==
  [o EXCEPT !.idx = o.idx + 1, !.last = ev, !.prev = o.last,
            !.att[depth] = Append(o.att[depth], cand)]

ObsOther(o, ev) == [o EXCEPT !.idx = o.idx + 1, !.last = ev, !.prev = o.last]

\* An event of solveNQueensArray / solveNQueensBitmask is consumed.
ObserveGen(o, r) ==
  IF r.done THEN o
  ELSE CASE r.value.action = "solution" -> ObsSolution(o, r.value)
         [] r.value.action = "place" ->
              ObsPlace(o, r.value, r.value.row, r.value.col)
         [] r.value.action = "remove" -> ObsRemove(o, r.value, r.value.row)
         [] OTHER -> ObsOther(o, r.value)

\* A step of computeTraceSteps is consumed.
ObserveTrace(o, r) ==
  IF r.done THEN o
  ELSE CASE r.value.status = "solution" -> ObsSolution(o, r.value)
         [] r.value.status = "placed" ->
              ObsPlace(o, r.value, r.value.candidate.col, r.value.candidate.row)
         [] r.value.status = "backtrack" ->
              ObsRemove(o, r.value, r.value.candidate.col)
         [] r.value.status = "attempt" ->
              ObsAttempt(o, r.value, r.value.candidate.col, r.value.candidate.row)
         [] OTHER -> ObsOther(o, r.value)

\* The candidates a counter has placed at depth 0, in order.
RootsArray(roots, c, c2) ==
  IF c2.at = "placed" /\ Len(c2.stack) = 1
  THEN Append(roots, Last(c2.stack).col) ELSE roots

RootsBitmask(roots, c, c2) ==
  IF c2.at = "picked" /\ Len(c2.stack) = 1
  THEN Append(roots, Log2(Last(c2.stack).pick)) ELSE roots

----------------------------------------------------------------------------
(* The synchronous callers: a counting function run to its return, and a   *)
(* generator drained eagerly ([...gen]).                                   *)

\* The counters run a fixed number of steps at a time (a finished counter
\* no longer changes), until they have returned.
CountArray2(size, c) ==
  Only({CountArrayNext(size, x) : x \in {CountArrayNext(size, c)}})

CountArray4(size, c) ==
  Only({CountArray2(size, x) : x \in {CountArray2(size, c)}})

CountArray8(size, c) ==
  Only({CountArray4(size, x) : x \in {CountArray4(size, c)}})

CountArray16(size, c) ==
  Only({CountArray8(size, x) : x \in {CountArray8(size, c)}})

CountArray32(size, c) ==
  Only({CountArray16(size, x) : x \in {CountArray16(size, c)}})

RECURSIVE RunCountArray(_, _)
RunCountArray(size, c) ==
  IF c.at = "done" THEN c.count
  ELSE Only({RunCountArray(size, x) : x \in {CountArray32(size, c)}})

countSolutionsArray(size) == RunCountArray(size, CountArrayInit)

CountBitmask2(size, c) ==
  Only({CountBitmaskNext(size, x) : x \in {CountBitmaskNext(size, c)}})

CountBitmask4(size, c) ==
  Only({CountBitmask2(size, x) : x \in {CountBitmask2(size, c)}})

CountBitmask8(size, c) ==
  Only({CountBitmask4(size, x) : x \in {CountBitmask4(size, c)}})

CountBitmask16(size, c) ==
  Only({CountBitmask8(size, x) : x \in {CountBitmask8(size, c)}})

CountBitmask32(size, c) ==
  Only({CountBitmask16(size, x) : x \in {CountBitmask16(size, c)}})

RECURSIVE RunCountBitmask(_, _)
RunCountBitmask(size, c) ==
  IF c.at = "done" THEN c.count
  ELSE Only({RunCountBitmask(size, x) : x \in {CountBitmask32(size, c)}})

countSolutionsBitmask(size) == RunCountBitmask(size, CountBitmaskInit)

\* A generator object: which generator function made it, its argument and
\* its suspended execution.
solveNQueensArray(size) == [kind |-> "array", n |-> size, g |-> ArrayInit]

solveNQueensBitmask(size) == [kind |-> "bitmask", n |-> size, g |-> BitmaskInit]

\* genRef.current.next(): {value, done} and the generator object afterwards.
GenNext(ref) ==
  LET r == IF ref.kind = "array" THEN ArrayNext(ref.n, ref.g)
           ELSE BitmaskNext(ref.n, ref.g)
  IN [ref |-> [ref EXCEPT !.g = r.gen], done |-> r.done, value |-> r.value]

\* One iteration of the drain: a next() whose value is kept unless done.
DrainStep(d) ==
  LET r == GenNext(d.ref)
  IN IF r.done THEN [d EXCEPT !.ref = r.ref, !.done = TRUE]
     ELSE [d EXCEPT !.ref = r.ref, !.acc = Append(d.acc, r.value)]

DrainStep2(c) ==
  Only({DrainStep(x) : x \in {DrainStep(c)}})

DrainStep4(c) ==
  Only({DrainStep2(x) : x \in {DrainStep2(c)}})

DrainStep8(c) ==
  Only({DrainStep4(x) : x \in {DrainStep4(c)}})

DrainStep16(c) ==
  Only({DrainStep8(x) : x \in {DrainStep8(c)}})

DrainStep32(c) ==
  Only({DrainStep16(x) : x \in {DrainStep16(c)}})

RECURSIVE DrainFrom(_)
DrainFrom(d) ==
  IF d.done THEN d.acc
  ELSE Only({DrainFrom(x) : x \in {DrainStep32(d)}})

\* [...gen]
Drain(ref) == DrainFrom([ref |-> ref, acc |-> <<>>, done |-> FALSE])

----------------------------------------------------------------------------
(* The five search functions run on the same n.  They share no state, so   *)
(* the order of their steps does not matter; they are stepped in turn.     *)

VARIABLES n, turn, genA, obsA, genB, obsB, trc, obsT, cntA, rootsA, cntB, rootsB

harness == <<n, turn, genA, obsA, genB, obsB, trc, obsT, cntA, rootsA, cntB, rootsB>>

(* NQueensVisualizer of App.jsx: the component state, the two refs and the *)
(* pending timeouts (each the delay it was scheduled with); computeTime, a  *)
(* wall-clock measurement, is left out.  eager,                            *)
(* delivered and lastStep record, for the run in progress, the eagerly     *)
(* drained trace of the same generator call, the number of steps handled   *)
(* and the last step handled.                                              *)

VARIABLES queenCount, speed, algorithm, totalSolutions, currentBoard,
          highlight, solutions, running, genRef, speedRef, timers,
          eager, delivered, lastStep

ui == <<queenCount, speed, algorithm, totalSolutions, currentBoard,
        highlight, solutions, running, genRef, speedRef, timers,
        eager, delivered, lastStep>>

vars == <<harness, ui>>

Machines == 1..5

\* The next machine after `i`, cyclically, that has not finished.
NextTurn(i, active) ==
  IF \A m \in Machines : ~active[m] THEN i
  ELSE LET k == Min({d \in 1..5 : active[((i - 1 + d) % 5) + 1]})
       IN ((i - 1 + k) % 5) + 1

Active(a, b, t, ca, cb) ==
  <<a.at # "done", b.at # "done", t.at # "done", ca.at # "done", cb.at # "done">>

HarnessInit(size) ==
  /\ n = size
  /\ turn = 1
  /\ genA = ArrayInit /\ obsA = ObsInit(n)
  /\ genB = BitmaskInit /\ obsB = ObsInit(n)
  /\ trc = TraceInit /\ obsT = ObsInit(n)
  /\ cntA = CountArrayInit /\ rootsA = <<>>
  /\ cntB = CountBitmaskInit /\ rootsB = <<>>

\* useState(4), the initial "Number of Queens"
InitQueens == 4

\* useState(500) and the ends of the speed slider, in ms
InitSpeed == 500

MinSpeed == 100

MaxSpeed == 1000

Speeds == {MinSpeed, InitSpeed, MaxSpeed}

Algorithms == {"array", "bitmasking"}

\* null
nullRef == [kind |-> "null"]

nullHighlight == [action |-> "null"]

UIInit ==
  /\ queenCount = InitQueens
  /\ speed = InitSpeed
  /\ algorithm = "array"
  /\ totalSolutions = <<>>
  /\ currentBoard = <<>>
  /\ highlight = nullHighlight
  /\ solutions = <<>>
  /\ running = FALSE
  /\ genRef = nullRef
  /\ speedRef = InitSpeed
  /\ timers = <<>>
  /\ eager = <<>> /\ delivered = 0 /\ lastStep = NoEvent

Init == (\E size \in Sizes : HarnessInit(size)) /\ UIInit

NextArray ==
  /\ turn = 1 /\ genA.at # "done"
  /\ genA' = ArrayNext(n, genA).gen
  /\ obsA' = ObserveGen(obsA, ArrayNext(n, genA))
  /\ turn' = NextTurn(1, Active(genA', genB, trc, cntA, cntB))
  /\ UNCHANGED <<n, genB, obsB, trc, obsT, cntA, rootsA, cntB, rootsB, ui>>

NextBitmask ==
  /\ turn = 2 /\ genB.at # "done"
  /\ genB' = BitmaskNext(n, genB).gen
  /\ obsB' = ObserveGen(obsB, BitmaskNext(n, genB))
  /\ turn' = NextTurn(2, Active(genA, genB', trc, cntA, cntB))
  /\ UNCHANGED <<n, genA, obsA, trc, obsT, cntA, rootsA, cntB, rootsB, ui>>

NextTrace ==
  /\ turn = 3 /\ trc.at # "done"
  /\ trc' = TraceNext(n, trc).gen
  /\ obsT' = ObserveTrace(obsT, TraceNext(n, trc))
  /\ turn' = NextTurn(3, Active(genA, genB, trc', cntA, cntB))
  /\ UNCHANGED <<n, genA, obsA, genB, obsB, cntA, rootsA, cntB, rootsB, ui>>

NextCountArray ==
  /\ turn = 4 /\ cntA.at # "done"
  /\ cntA' = CountArrayNext(n, cntA)
  /\ rootsA' = RootsArray(rootsA, cntA, cntA')
  /\ turn' = NextTurn(4, Active(genA, genB, trc, cntA', cntB))
  /\ UNCHANGED <<n, genA, obsA, genB, obsB, trc, obsT, cntB, rootsB, ui>>

NextCountBitmask ==
  /\ turn = 5 /\ cntB.at # "done"
  /\ cntB' = CountBitmaskNext(n, cntB)
  /\ rootsB' = RootsBitmask(rootsB, cntB, cntB')
  /\ turn' = NextTurn(5, Active(genA, genB, trc, cntA, cntB'))
  /\ UNCHANGED <<n, genA, obsA, genB, obsB, trc, obsT, cntA, rootsA, ui>>

Next == NextArray \/ NextBitmask \/ NextTrace \/ NextCountArray \/ NextCountBitmask

Spec == Init /\ [][Next]_vars

----------------------------------------------------------------------------
(* The visualizer *)

QueenCounts == 0..MaxQueens

\* onChange of the "Number of Queens" input (disabled while running)
SetQueenCount ==
  /\ ~running
  /\ \E v \in QueenCounts : queenCount' = v
  /\ UNCHANGED <<harness, speed, algorithm, totalSolutions, currentBoard,
                 highlight, solutions, running, genRef, speedRef, timers,
                 eager, delivered, lastStep>>

\* onChange of the speed slider, and the effect that copies speed to speedRef
SetSpeed ==
  /\ \E v \in Speeds : speed' = v /\ speedRef' = v
  /\ UNCHANGED <<harness, queenCount, algorithm, totalSolutions, currentBoard,
                 highlight, solutions, running, genRef, timers,
                 eager, delivered, lastStep>>

\* onChange of the algorithm select (disabled while running)
SetAlgorithm ==
  /\ ~running
  /\ \E a \in Algorithms : algorithm' = a
  /\ UNCHANGED <<harness, queenCount, speed, totalSolutions, currentBoard,
                 highlight, solutions, running, genRef, speedRef, timers,
                 eager, delivered, lastStep>>

\* computeStatistics: the count shown as "Total Solutions"
computeStatistics(size, alg) ==
  IF alg = "array" THEN countSolutionsArray(size) ELSE countSolutionsBitmask(size)

\* The generator startVisualization puts in genRef.current
NewGenerator(size, alg) ==
  IF alg = "array" THEN solveNQueensArray(size) ELSE solveNQueensBitmask(size)

\* onClick of the Start button (disabled while running)
startVisualization ==
  /\ ~running
  /\ solutions' = <<>>
  /\ currentBoard' = [i \in Cols(queenCount) |-> undefined]
  /\ totalSolutions' = <<computeStatistics(queenCount, algorithm)>>
  /\ highlight' = nullHighlight
  /\ running' = TRUE
  /\ genRef' = NewGenerator(queenCount, algorithm)
  /\ timers' = Append(timers, speedRef)
  /\ eager' = Drain(NewGenerator(queenCount, algorithm))
  /\ delivered' = 0
  /\ lastStep' = NoEvent
  /\ UNCHANGED <<harness, queenCount, speed, algorithm, speedRef>>

RemoveAt(s, i) == SubSeq(s, 1, i - 1) \o SubSeq(s, i + 1, Len(s))

\* A handler that puts a new solution in front of the list.
HandleSolutionsPrepend(step) ==
  IF step.action = "solution" THEN <<step.board>> \o solutions ELSE solutions

\* What stepGenerator does with a step that is not the end: the board and
\* the highlight of a place/remove, the solutions list of a solution.
HandleBoard(step) ==
  IF step.action \in {"place", "remove"} THEN step.board ELSE currentBoard

HandleHighlight(step) ==
  IF step.action \in {"place", "remove"}
  THEN [row |-> step.row, col |-> step.col, action |-> step.action]
  ELSE highlight

HandleSolutions(step) ==
  IF step.action = "solution" THEN Append(solutions, step.board) ELSE solutions

\* A pending timeout fires: stepGenerator
stepGenerator ==
  \E i \in 1..Len(timers) :
    IF genRef = nullRef
    THEN /\ timers' = RemoveAt(timers, i)
         /\ UNCHANGED <<harness, queenCount, speed, algorithm, totalSolutions,
                        currentBoard, highlight, solutions, running, genRef,
                        speedRef, eager, delivered, lastStep>>
    ELSE LET next == GenNext(genRef)
         IN /\ genRef' = next.ref
            /\ IF ~next.done
               THEN /\ currentBoard' = HandleBoard(next.value)
                    /\ highlight' = HandleHighlight(next.value)
                    /\ solutions' = HandleSolutions(next.value)
                    /\ timers' = Append(RemoveAt(timers, i), speedRef)
                    /\ delivered' = delivered + 1
                    /\ lastStep' = next.value
                    /\ UNCHANGED running
               ELSE /\ running' = FALSE
                    /\ highlight' = nullHighlight
                    /\ timers' = RemoveAt(timers, i)
                    /\ UNCHANGED <<currentBoard, solutions, delivered, lastStep>>
            /\ UNCHANGED <<harness, queenCount, speed, algorithm,
                           totalSolutions, speedRef, eager>>

NextUI == SetQueenCount \/ SetSpeed \/ SetAlgorithm \/ startVisualization
          \/ stepGenerator

InitUI == HarnessInit(0) /\ UIInit

SpecUI == InitUI /\ [][NextUI]_vars

----------------------------------------------------------------------------
(* Properties *)

AllDone ==
  /\ genA.at = "done" /\ genB.at = "done" /\ trc.at = "done"
  /\ cntA.at = "done" /\ cntB.at = "done"

\* The number of solutions of the N-Queens problem for N = 1..8.
KnownCounts == <<1, 0, 0, 2, 10, 4, 40, 92>>

\* C1: for N in 1..8 countSolutionsArray(N) and countSolutionsBitmask(N)
\* return the known N-Queens count (1, 0, 0, 2, 10, 4, 40, 92), hence the
\* same number.
C1_KnownCounts ==
  n \in 1..Len(KnownCounts) =>
    /\ cntA.at = "done" => cntA.count = KnownCounts[n]
    /\ cntB.at = "done" => cntB.count = KnownCounts[n]

C1_Witness ==
  /\ n = Len(KnownCounts) /\ cntA.at = "done" /\ cntB.at = "done"
  /\ cntA.count = cntB.count /\ cntA.count > 0

\* C2: for N >= 1 the number of "solution" events of a complete trace equals
\* the count returned by the counting function of the same strategy.
C2_SolutionEventsEqualCount ==
  (n >= 1 /\ AllDone) =>
    /\ obsA.solCount = cntA.count
    /\ obsT.solCount = cntA.count
    /\ obsB.solCount = cntB.count

C2_Witness == n >= 4 /\ AllDone /\ obsA.solCount >= 2 /\ obsB.solCount >= 2

\* A complete board: every entry a column of 0..size-1, no column twice, no
\* two entries on a diagonal.
IsSolution(size, board) ==
  /\ DOMAIN board = Cols(size)
  /\ \A i \in Cols(size) : board[i] \in Cols(size)
  /\ \A i, j \in Cols(size) :
       i # j => /\ board[i] # board[j]
                /\ Abs(board[i] - board[j]) # Abs(i - j)

\* C3: the board of every "solution" event of the three trace producers has
\* all N entries set, is a permutation of 0..N-1 and has no two entries on a
\* diagonal.
C3_SolutionBoardsValid ==
  /\ obsA.solCount > 0 => IsSolution(n, obsA.lastSol)
  /\ obsB.solCount > 0 => IsSolution(n, obsB.lastSol)
  /\ obsT.solCount > 0 => IsSolution(n, obsT.lastSol)

C3_Witness ==
  /\ n >= 4
  /\ obsA.last.action = "solution" /\ obsB.last.action = "solution"
  /\ obsT.solCount > 0

\* a < b in lexicographic order, index 0 first.
LexLess(a, b) ==
  \E k \in DOMAIN a :
     /\ a[k] < b[k]
     /\ \A i \in DOMAIN a : i < k => a[i] = b[i]

\* C4: within one trace each solution board is lexicographically greater
\* than the solution board before it (so, the order being transitive, than
\* every earlier one, and no board appears twice).
C4_SolutionsLexIncreasing ==
  /\ obsA.solCount >= 2 => LexLess(obsA.prevSol, obsA.lastSol)
  /\ obsB.solCount >= 2 => LexLess(obsB.prevSol, obsB.lastSol)
  /\ obsT.solCount >= 2 => LexLess(obsT.prevSol, obsT.lastSol)

C4_Witness ==
  obsA.solCount >= 3 /\ obsB.solCount >= 3 /\ obsT.solCount >= 3

AllUnset(board, unset) == \A i \in DOMAIN board : board[i] = unset

\* The open placements are those of depths 0, 1, 2, ... in this order, and
\* each depth has one more placement than removals exactly while it is open.
Nested(o) ==
  /\ \A i \in 1..Len(o.open) : o.open[i].depth = i - 1
  /\ \A d \in DOMAIN o.places :
       o.places[d] = o.removes[d] + (IF d < Len(o.open) THEN 1 ELSE 0)

\* A removal of (depth, cand) closes the innermost open placement, which is
\* the placement of (depth, cand).
RemoveMatches(o, isRemove, depth, cand) ==
  isRemove =>
    /\ Len(o.popped) = 1
    /\ o.popped[1].depth = depth /\ o.popped[1].cand = cand
    /\ Len(o.open) = depth

GenNested(o) ==
  /\ Nested(o)
  /\ RemoveMatches(o, o.last.action = "remove",
                   IF o.last.action = "remove" THEN o.last.row ELSE 0,
                   IF o.last.action = "remove" THEN o.last.col ELSE 0)
  /\ o.last.action = "place" =>
       /\ Len(o.open) = o.last.row + 1
       /\ Last(o.open).cand = o.last.col

TraceNested(o) ==
  /\ Nested(o)
  /\ o.idx > 0 =>
       /\ RemoveMatches(o, o.last.status = "backtrack",
             IF o.last.status = "backtrack" THEN o.last.candidate.col ELSE 0,
             IF o.last.status = "backtrack" THEN o.last.candidate.row ELSE 0)
       /\ o.last.status = "placed" =>
            /\ Len(o.open) = o.last.candidate.col + 1
            /\ Last(o.open).cand = o.last.candidate.row
       /\ o.last.status = "attempt" => Len(o.open) = o.last.candidate.col

\* C5: placements and removals are properly nested: a removal closes the
\* innermost open placement and has its coordinate, everything between a
\* placement and its removal acts at a deeper index, each depth has as many
\* removals as placements once the search is over, and the live board is
\* then empty.
C5_PlacementsBalanced ==
  /\ GenNested(obsA) /\ GenNested(obsB) /\ TraceNested(obsT)
  /\ genA.at = "done" => obsA.open = <<>> /\ AllUnset(genA.board, undefined)
  /\ genB.at = "done" => obsB.open = <<>> /\ AllUnset(genB.board, undefined)
  /\ trc.at = "done" => obsT.open = <<>> /\ AllUnset(trc.board, Empty)

C5_Witness ==
  /\ n >= 4 /\ AllDone
  /\ \A d \in Cols(n) : /\ obsA.places[d] > 0 /\ obsA.removes[d] = obsA.places[d]
                        /\ obsB.removes[d] = obsB.places[d]
                        /\ obsT.removes[d] = obsT.places[d]

\* C6: solveNQueensArray(N) and solveNQueensBitmask(N) yield the same
\* sequence of events: after the same number of next() calls both have
\* yielded the same event (action, row, col, board) or both are done.
C6_SameEvents ==
  turn # 2 =>
    /\ obsA.idx = obsB.idx
    /\ obsA.last = obsB.last
    /\ (genA.at = "done") = (genB.at = "done")

C6_Witness ==
  /\ n >= 4 /\ genA.at = "done" /\ genB.at = "done"
  /\ obsA.idx = obsB.idx /\ obsA.idx > 2 * n

\* The columns 0..size-1 in ascending order.
Ascending(size) == [i \in 1..size |-> i - 1]

\* When a search is over, each column 0..N-1 has been placed at depth 0
\* exactly once, in ascending order.
RootsExhausted ==
  /\ genA.at = "done" => obsA.rootCands = Ascending(n)
  /\ genB.at = "done" => obsB.rootCands = Ascending(n)
  /\ trc.at = "done" => obsT.rootCands = Ascending(n)
  /\ cntA.at = "done" => rootsA = Ascending(n)
  /\ cntB.at = "done" => rootsB = Ascending(n)

\* The searches under weak fairness: a function that was called runs on, and
\* a drained generator is resumed, until it returns.
InitFair == (\E size \in 0..MaxFairN : HarnessInit(size)) /\ UIInit

FairSpec == InitFair /\ [][Next]_vars /\ WF_vars(Next)

C9_ZeroRejected ==
  n = 0 =>
    /\ obsA.idx = 0 /\ obsB.idx = 0 /\ obsT.idx = 0
    /\ cntA.at # "done" /\ cntB.at # "done"

\* C10 as claimed: in the board of a remove/backtrack event the acted-on
\* index is unset and the shallower entries are those of the placing event.
RemoveBoardUndone(o, isRemove, depth, unset) ==
  isRemove =>
    /\ o.last.board[depth] = unset
    /\ Len(o.popped) = 1
    /\ \A i \in 0..(depth - 1) : o.last.board[i] = o.popped[1].board[i]

C10_RemoveAfterUndo ==
  /\ RemoveBoardUndone(obsA, obsA.last.action = "remove",
        IF obsA.last.action = "remove" THEN obsA.last.row ELSE 0, undefined)
  /\ RemoveBoardUndone(obsB, obsB.last.action = "remove",
        IF obsB.last.action = "remove" THEN obsB.last.row ELSE 0, undefined)
  /\ obsT.idx > 0 =>
       RemoveBoardUndone(obsT, obsT.last.status = "backtrack",
          IF obsT.last.status = "backtrack" THEN obsT.last.candidate.col ELSE 0,
          Empty)

\* The attempts of one activation of solve(col) so far: rows 0, 1, 2, ...
AttemptsAscending(o, size) ==
  \A d \in DOMAIN o.att :
     /\ Len(o.att[d]) <= size
     /\ o.att[d] = [i \in 1..Len(o.att[d]) |-> i - 1]

\* C11: computeTraceSteps emits an "attempt" for every candidate tested: an
\* activation of solve(col), col < n, attempts the rows 0..n-1 in ascending
\* order, n attempts in all by the time it returns; a "placed" step comes
\* right after the "attempt" of the same (col, row); and the board of an
\* attempt has index col still empty (-1).
C11_AttemptForEveryCandidate ==
  /\ AttemptsAscending(obsT, n)
  /\ (obsT.idx > 0 /\ obsT.last.status = "backtrack"
      /\ obsT.last.candidate.col + 1 < n) => obsT.closed = <<Ascending(n)>>
  /\ (trc.at = "done" /\ n >= 1) => obsT.att[0] = Ascending(n)
  /\ (obsT.idx > 0 /\ obsT.last.status = "attempt") =>
       obsT.last.board[obsT.last.candidate.col] = Empty
  /\ (obsT.idx > 0 /\ obsT.last.status = "placed") =>
       /\ obsT.idx > 1
       /\ obsT.prev.status = "attempt"
       /\ obsT.prev.candidate = obsT.last.candidate
       /\ obsT.prev.board[obsT.last.candidate.col] = Empty

C11_Witness ==
  /\ n >= 4 /\ obsT.idx > 0 /\ obsT.last.status = "backtrack"
  /\ obsT.last.candidate.col = 1 /\ obsT.last.candidate.row = n - 1
  /\ obsT.closed = <<Ascending(n)>>
  /\ obsT.solCount > 0

\* Bit c of a non-negative mask.
BitSet(mask, c) == (mask \div (2 ^ c)) % 2 = 1

\* The columns whose bit is set in the mask.
MaskColumns(mask, size) == {c \in Cols(size) : BitSet(mask, c)}

SetEntries(board, unset) == {i \in DOMAIN board : board[i] # unset}

\* No two set entries share a column or a diagonal.
PartialBoardConsistent(board, unset) ==
  \A i, j \in SetEntries(board, unset) :
     i # j => /\ board[i] # board[j]
              /\ Abs(board[i] - board[j]) # Abs(i - j)

\* The depth of the call of backtrack / solve that is executing.
GenDepth(g) == IF g.at \in {"place", "remove"} THEN Len(g.stack) - 1
               ELSE Len(g.stack)

TraceDepth(t) == IF t.at \in {"attempt", "placed", "backtrack"}
                 THEN Len(t.stack) - 1 ELSE Len(t.stack)

CountDepth(c) == IF c.at \in {"placed", "removed"} THEN Len(c.stack) - 1
                 ELSE Len(c.stack)

\* Whether the placement made at that depth is on the board: for the
\* generators from the assignment up to the clearing that follows the
\* "remove" event; for the other two from the assignment up to the clearing
\* that follows the return of the recursive call.
GenPlacementActive(g) == g.at \in {"place", "remove"}

TracePlacementActive(t) == t.at = "placed"

CountPlacementActive(c) == c.at = "placed"

PrefixAt(board, unset, depth, active) ==
  SetEntries(board, unset) = 0..((IF active THEN depth + 1 ELSE depth) - 1)

\* C13: in every state of solveNQueensArray, solveNQueensBitmask,
\* computeTraceSteps and countSolutionsArray the set entries of the live
\* board are the prefix 0..d-1 of the current depth d (0..d while the
\* placement at depth d is on the board), and no two set entries share a
\* column or a diagonal.
C13_PrefixAndConsistent ==
  /\ PrefixAt(genA.board, undefined, GenDepth(genA), GenPlacementActive(genA))
  /\ PartialBoardConsistent(genA.board, undefined)
  /\ PrefixAt(genB.board, undefined, GenDepth(genB), GenPlacementActive(genB))
  /\ PartialBoardConsistent(genB.board, undefined)
  /\ PrefixAt(trc.board, Empty, TraceDepth(trc), TracePlacementActive(trc))
  /\ PartialBoardConsistent(trc.board, Empty)
  /\ PrefixAt(cntA.board, undefined, CountDepth(cntA),
              CountPlacementActive(cntA))
  /\ PartialBoardConsistent(cntA.board, undefined)

\* All four searches are three or more queens deep, one of them just after
\* undoing a placement.
C13_Witness ==
  /\ n >= 5
  /\ trc.at = "backtrack" /\ Cardinality(SetEntries(trc.board, Empty)) >= 3
  /\ Cardinality(SetEntries(genA.board, undefined)) >= 3
  /\ Cardinality(SetEntries(genB.board, undefined)) >= 3
  /\ Cardinality(SetEntries(cntA.board, undefined)) >= 3
  /\ C13_PrefixAndConsistent

\* The masks as the board prefix below `row` determines them: the columns of
\* the queens, and the columns their two diagonals cross row `row` at.
BoardColumns(board, row) == {board[r] : r \in 0..(row - 1)}

BoardDiag1(board, row) == {board[r] + (row - r) : r \in 0..(row - 1)}

BoardDiag2(board, row) == {board[r] - (row - r) : r \in 0..(row - 1)}

\* C14: at every entry to the bitmask backtrack(row, columns, diag1, diag2)
\* of solveNQueensBitmask, columns has exactly row bits set, bit c being set
\* iff board[r] = c for some r < row; and columns, the low n bits of diag1,
\* and diag2 are determined by the board prefix alone.
C14_MasksFollowBoard ==
  BitmaskEntering(genB) =>
    LET a == BitmaskEntry(n, genB)
    IN /\ a.columns >= 0 /\ a.columns < 2 ^ n
       /\ Cardinality(MaskColumns(a.columns, n)) = a.row
       /\ MaskColumns(a.columns, n) = BoardColumns(a.board, a.row)
       /\ a.diag1 >= 0
       /\ MaskColumns(a.diag1, n) = BoardDiag1(a.board, a.row) \cap Cols(n)
       /\ a.diag2 >= 0 /\ a.diag2 < 2 ^ n
       /\ MaskColumns(a.diag2, n) = BoardDiag2(a.board, a.row) \cap Cols(n)

\* An entry three or more rows deep where diag1 has grown past bit n - 1
\* and diag2 has dropped a bit off its low end.
C14_Witness ==
  /\ n >= 5 /\ genB.at = "place"
  /\ LET a == BitmaskEntry(n, genB)
     IN /\ a.row >= 3
        /\ Cardinality(MaskColumns(a.columns, n)) = a.row
        /\ MaskColumns(a.columns, n) = BoardColumns(a.board, a.row)
        /\ a.diag1 >= 2 ^ n
        /\ Cardinality(MaskColumns(a.diag2, n)) < a.row
        /\ MaskColumns(a.diag2, n) # {}

----------------------------------------------------------------------------
(* The visualizer against the eager drain *)

IsSolutionStep(step) == step.action = "solution"

\* The boards of the solution events among the first k events of a trace.
SolutionBoards(trace, k) ==
  LET sel == SelectSeq(SubSeq(trace, 1, k), IsSolutionStep)
  IN [i \in 1..Len(sel) |-> sel[i].board]

\* C8: stepping the generator from timeouts delivers the events of the
\* eager drain, in order, none skipped or repeated: the k-th step handled is
\* the k-th event of the drain, the solutions list holds the solution boards
\* of the first k events in trace order, and running is false again only
\* when the generator is done and every event has been handled.
C8_LazyEqualsEager ==
  genRef # nullRef =>
    /\ delivered <= Len(eager)
    /\ delivered > 0 => lastStep = eager[delivered]
    /\ solutions = SolutionBoards(eager, delivered)
    /\ ~running => genRef.g.at = "done" /\ delivered = Len(eager)

C8_Witness ==
  /\ genRef # nullRef /\ ~running /\ genRef.kind = "bitmask"
  /\ Len(solutions) >= 2 /\ speedRef # InitSpeed
  /\ totalSolutions = <<Len(solutions)>>
====
